---- MODULE Spec2Model ----
(***************************************************************************)
(* Connection / session lifecycle of jai_remote_acp_persona:               *)
(*   RemoteAcpPersona  (remote_acp_persona.py)                             *)
(*   RemoteAcpClient   (remote_acp_client.py)                              *)
(* One asyncio event loop runs every task; a task is modelled by the       *)
(* await at which it is suspended, and one step resumes one task and runs  *)
(* it to its next suspension.  An await on a task that is already done     *)
(* does not suspend.                                                       *)
(***************************************************************************)
EXTENDS Integers, Sequences, FiniteSets, TLC

VARIABLES
    classDict,      \* cls.__dict__.get('_client_future'), per class
    clientTasks,    \* the _init_client tasks, each with the client it built
    sessionTasks,   \* the _init_client_session tasks
    personas,       \* the RemoteAcpPersona instances, in construction order
    last            \* the host's latest accessor call and what it produced

vars == <<classDict, clientTasks, sessionTasks, personas, last>>

----------------------------------------------------------------------------
(* Bounds *)

MaxPersonas == 2

\* Bound: the longest list of slash commands an agent advertises
MaxCommands == 2

----------------------------------------------------------------------------
(* Classes.  RemoteAcpPersona declares _client_future = None; the concrete *)
(* classes inherit it until a construction assigns their own.              *)

BaseClass == "RemoteAcpPersona"
ExampleClass == "ExampleRemotePersona"
SubClass == "SubPersona"            \* class SubPersona(ExampleRemotePersona)

ConcreteClasses == {ExampleClass, SubClass}
AllClasses == ConcreteClasses \cup {BaseClass}

Parent(c) == IF c = SubClass THEN ExampleClass ELSE BaseClass

\* An entry of cls.__dict__ for '_client_future': no such key, None, or a task
Entry(kind, task) == [kind |-> kind, task |-> task]
Absent == Entry("absent", 0)
None == Entry("None", 0)
TaskRef(k) == Entry("task", k)

\* cls._client_future: attribute lookup along the method resolution order
RECURSIVE ClassAttr(_)
ClassAttr(c) ==
    IF classDict[c] # Absent THEN classDict[c]
    ELSE IF c = BaseClass THEN None
    ELSE ClassAttr(Parent(c))

----------------------------------------------------------------------------
(* Endpoints *)

DefaultUrl == "ws://localhost:8080/ws"
SecureUrl == "wss://agent.example/ws"
HttpUrl == "http://localhost:8080/ws"
EmptyUrl == ""
BlankUrl == "  "

Urls == {DefaultUrl, SecureUrl, HttpUrl, EmptyUrl, BlankUrl}

IsSpace(ch) == ch \in {" ", "\t", "\n", "\r"}

\* str.strip(): drop leading and trailing whitespace
RECURSIVE LStrip(_)
LStrip(s) ==
    IF Len(s) = 0 THEN s
    ELSE IF IsSpace(SubSeq(s, 1, 1)) THEN LStrip(SubSeq(s, 2, Len(s)))
    ELSE s

RECURSIVE RStrip(_)
RStrip(s) ==
    IF Len(s) = 0 THEN s
    ELSE IF IsSpace(SubSeq(s, Len(s), Len(s))) THEN RStrip(SubSeq(s, 1, Len(s) - 1))
    ELSE s

Strip(s) == RStrip(LStrip(s))

\* str.startswith(prefix)
StartsWith(s, prefix) ==
    /\ Len(s) >= Len(prefix)
    /\ SubSeq(s, 1, Len(prefix)) = prefix

ErrEmpty == "ValueError: remote_url cannot be empty"
ErrScheme == "ValueError: remote_url must start with ws:// or wss://"
NoError == "none"

\* The URL validation of RemoteAcpClient.__init__: the ValueError it raises
ValidateUrl(url) ==
    IF Len(url) = 0 \/ Len(Strip(url)) = 0 THEN ErrEmpty
    ELSE IF ~(StartsWith(url, "ws://") \/ StartsWith(url, "wss://")) THEN ErrScheme
    ELSE NoError

----------------------------------------------------------------------------
(* Values an awaited task yields: a result or the exception it raised *)

Result(tag, id, err) == [tag |-> tag, id |-> id, err |-> err]
NoResult == Result("none", 0, NoError)
Ok(id) == Result("ok", id, NoError)
Raised(err) == Result("err", 0, err)

ErrConnect == "connect failed"
ErrInitialize == "initialize failed"
ErrNewSession == "new_session failed"
ErrConnClose == "conn.close failed"
ErrCtxExit == "__aexit__ failed"
ErrNotAwaitable == "TypeError: NoneType can't be used in 'await' expression"

Unset == "<unset>"      \* ACP_SERVER_URL not in os.environ
EnvValues == Urls \cup {Unset}

\* Variant: the environment is not consulted, the endpoint is always the default
EnvUrl_Fixed(env) == DefaultUrl

\* os.environ.get("ACP_SERVER_URL", "ws://localhost:8080/ws")
EnvUrl(env) == IF env = Unset THEN DefaultUrl ELSE env

----------------------------------------------------------------------------
(* Initial state: no instance constructed, no class owns a client future *)

Init ==
    /\ classDict = [c \in AllClasses |-> IF c = BaseClass THEN None ELSE Absent]
    /\ clientTasks = <<>>
    /\ sessionTasks = <<>>
    /\ personas = <<>>
    /\ last = [op |-> "none", inst |-> 0, val |-> NoResult]

ClientIds == 1..Len(clientTasks)
SessionIds == 1..Len(sessionTasks)
PersonaIds == 1..Len(personas)

\* What awaiting client task k yields now
ClientResult(k) ==
    IF clientTasks[k].st = "done" THEN Ok(k)
    ELSE IF clientTasks[k].st = "failed" THEN Raised(clientTasks[k].err)
    ELSE NoResult

\* What awaiting client k's _connection_future yields now
ConnectionResult(k) ==
    IF clientTasks[k].conn = "done" THEN Ok(k)
    ELSE IF clientTasks[k].conn = "failed" THEN Raised(clientTasks[k].connErr)
    ELSE NoResult

\* What awaiting session task t yields now
SessionResult(t) ==
    IF sessionTasks[t].pc = "done" THEN Ok(sessionTasks[t].id)
    ELSE IF sessionTasks[t].pc = "failed" THEN Raised(sessionTasks[t].err)
    ELSE NoResult

----------------------------------------------------------------------------
(* RemoteAcpPersona.__init__ *)

\* Variant: no memoization, every construction starts a client
NeedsClient_Always(c) == TRUE

\* Variant: the test reads the inherited attribute only, not the class's own __dict__
NeedsClient_Inherited(c) == ClassAttr(c) = None

\* Variant: a construction after a failed setup starts the client again
NeedsClient_Retry(c) ==
    \/ classDict[c] = Absent
    \/ ClassAttr(c) = None
    \/ /\ ClassAttr(c).kind = "task"
       /\ \/ clientTasks[ClassAttr(c).task].st = "failed"
          \/ clientTasks[ClassAttr(c).task].conn = "failed"

\* Variant: a construction after the client was torn down starts a new client
NeedsClient_TornDown(c) ==
    \/ classDict[c] = Absent
    \/ ClassAttr(c) = None
    \/ /\ ClassAttr(c).kind = "task"
       /\ clientTasks[ClassAttr(c).task].closes > 0

\* The test of line 54: this class has no client future of its own yet
NeedsClient(c) ==
    classDict[c] = Absent \/ ClassAttr(c) = None

NewClientTask(c, url) ==
    [cls |-> c, url |-> url, st |-> "created", err |-> NoError,
     ctxSet |-> FALSE, transport |-> "unopened",
     conn |-> "none", connErr |-> NoError,
     connects |-> 0, inits |-> 0, sessions |-> 0, closes |-> 0, exits |-> 0,
     closePc |-> "none"]

NewSessionTask(i) ==
    [owner |-> i, pc |-> "created", client |-> 0, calls |-> 0,
     id |-> 0, err |-> NoError]

NewPersona(c, url, t) ==
    [cls |-> c, url |-> url, sess |-> t,
     sd |-> "none", sdErr |-> NoError, commands |-> <<>>]

\* Variant: the session future is memoized per class, like the client future
Construct_SharedSession(c, url) ==
    /\ Len(personas) < MaxPersonas
    /\ IF NeedsClient(c)
       THEN /\ clientTasks' = Append(clientTasks, NewClientTask(c, url))
            /\ classDict' = [classDict EXCEPT ![c] = TaskRef(Len(clientTasks) + 1)]
       ELSE UNCHANGED <<clientTasks, classDict>>
    /\ IF \E j \in 1..Len(personas) : personas[j].cls = c
       THEN /\ UNCHANGED sessionTasks
            /\ personas' = Append(personas, NewPersona(c, url,
                    personas[CHOOSE j \in 1..Len(personas) : personas[j].cls = c].sess))
       ELSE /\ sessionTasks' = Append(sessionTasks, NewSessionTask(Len(personas) + 1))
            /\ personas' = Append(personas, NewPersona(c, url, Len(sessionTasks) + 1))
    /\ UNCHANGED last

\* Variant: the endpoint is kept on the class, every construction overwrites it
Construct_LastEndpoint(c, url) ==
    /\ Len(personas) < MaxPersonas
    /\ IF NeedsClient(c)
       THEN /\ clientTasks' = Append(clientTasks, NewClientTask(c, url))
            /\ classDict' = [classDict EXCEPT ![c] = TaskRef(Len(clientTasks) + 1)]
       ELSE /\ clientTasks' = [clientTasks EXCEPT ![ClassAttr(c).task].url = url]
            /\ UNCHANGED classDict
    /\ sessionTasks' = Append(sessionTasks, NewSessionTask(Len(personas) + 1))
    /\ personas' = Append(personas, NewPersona(c, url, Len(sessionTasks) + 1))
    /\ UNCHANGED last

\* RemoteAcpPersona.__init__(remote_url=url) on a new instance of class c
Construct(c, url) ==
    /\ Len(personas) < MaxPersonas
    /\ IF NeedsClient(c)
       THEN /\ clientTasks' = Append(clientTasks, NewClientTask(c, url))
            /\ classDict' = [classDict EXCEPT ![c] = TaskRef(Len(clientTasks) + 1)]
       ELSE UNCHANGED <<clientTasks, classDict>>
    /\ sessionTasks' = Append(sessionTasks, NewSessionTask(Len(personas) + 1))
    /\ personas' = Append(personas, NewPersona(c, url, Len(sessionTasks) + 1))
    /\ UNCHANGED last

\* ExampleRemotePersona.__init__ (and subclasses): the URL comes from the environment
ConstructExample(c, env) == Construct(c, EnvUrl(env))

----------------------------------------------------------------------------
(* The _init_client task: RemoteAcpClient(remote_url=..., event_loop=...) *)

\* Variant: the connection task is created before the URL is validated
ClientInit_TaskFirst(task) ==
    IF ValidateUrl(task.url) # NoError
    THEN [task EXCEPT !.st = "failed", !.err = ValidateUrl(task.url), !.conn = "created"]
    ELSE [task EXCEPT !.st = "done", !.conn = "created"]

\* Variant: a malformed URL is not rejected, the client is built all the same
ClientInit_Lenient(task) ==
    [task EXCEPT !.st = "done", !.conn = "created"]

\* RemoteAcpClient.__init__ on task k: validation, then the connection task
ClientInit(task) ==
    IF ValidateUrl(task.url) # NoError
    THEN [task EXCEPT !.st = "failed", !.err = ValidateUrl(task.url)]
    ELSE [task EXCEPT !.st = "done", !.conn = "created"]

InitClient(k) ==
    /\ clientTasks[k].st = "created"
    /\ clientTasks' = [clientTasks EXCEPT ![k] = ClientInit(@)]
    /\ UNCHANGED <<classDict, sessionTasks, personas, last>>

----------------------------------------------------------------------------
(* The _init_connection task of client k *)

\* first run: build the context manager, call __aenter__, suspend on it
InitConnection(k) ==
    /\ clientTasks[k].conn = "created"
    /\ clientTasks' = [clientTasks EXCEPT ![k].ctxSet = TRUE,
                                          ![k].connects = @ + 1,
                                          ![k].conn = "connecting"]
    /\ UNCHANGED <<classDict, sessionTasks, personas, last>>

\* __aenter__ returned a connection: call conn.initialize, suspend on it
ConnectOk(k) ==
    /\ clientTasks[k].conn = "connecting"
    /\ clientTasks' = [clientTasks EXCEPT ![k].transport = "open",
                                          ![k].inits = @ + 1,
                                          ![k].conn = "initializing"]
    /\ UNCHANGED <<classDict, sessionTasks, personas, last>>

\* __aenter__ raised: logged, re-raised
ConnectFail(k) ==
    /\ clientTasks[k].conn = "connecting"
    /\ clientTasks' = [clientTasks EXCEPT ![k].conn = "failed",
                                          ![k].connErr = ErrConnect]
    /\ UNCHANGED <<classDict, sessionTasks, personas, last>>

\* conn.initialize returned: the task returns conn
InitializeOk(k) ==
    /\ clientTasks[k].conn = "initializing"
    /\ clientTasks' = [clientTasks EXCEPT ![k].conn = "done"]
    /\ UNCHANGED <<classDict, sessionTasks, personas, last>>

\* conn.initialize raised: logged, re-raised
InitializeFail(k) ==
    /\ clientTasks[k].conn = "initializing"
    /\ clientTasks' = [clientTasks EXCEPT ![k].conn = "failed",
                                          ![k].connErr = ErrInitialize]
    /\ UNCHANGED <<classDict, sessionTasks, personas, last>>

----------------------------------------------------------------------------
(* get_client: await self.__class__._client_future *)

\* Variant: get_client reads the attribute of the parent class, not of self.__class__
GetClientResult_Super(i) ==
    LET e == ClassAttr(Parent(personas[i].cls))
    IN  IF e.kind = "task" THEN ClientResult(e.task) ELSE Raised(ErrNotAwaitable)

\* What get_client() on instance i yields now (NoResult: it stays suspended)
GetClientResult(i) ==
    LET e == ClassAttr(personas[i].cls)
    IN  IF e.kind = "task" THEN ClientResult(e.task) ELSE Raised(ErrNotAwaitable)

----------------------------------------------------------------------------
(* The _init_client_session task of instance i *)

\* JaiAcpClient.create_session, entered: conn = await self.get_connection(),
\* then conn.new_session(...)
CreateSession(task, k) ==
    LET r == ConnectionResult(k)
    IN  IF r.tag = "none" THEN [task EXCEPT !.pc = "await_conn"]
        ELSE IF r.tag = "err" THEN [task EXCEPT !.pc = "failed", !.err = r.err]
        ELSE [task EXCEPT !.pc = "new_session"]

\* Variant: the session request is issued without waiting for the client future
InitClientSession_NoAwait(task, r) ==
    IF r.tag = "err" THEN [task EXCEPT !.pc = "failed", !.err = r.err]
    ELSE IF r.tag = "none" THEN [task EXCEPT !.pc = "await_client", !.calls = @ + 1]
    ELSE CreateSession([task EXCEPT !.client = r.id, !.calls = @ + 1], r.id)

\* client = await self.get_client(); session = await client.create_session(...)
InitClientSession(task, r) ==
    IF r.tag = "none" THEN [task EXCEPT !.pc = "await_client"]
    ELSE IF r.tag = "err" THEN [task EXCEPT !.pc = "failed", !.err = r.err]
    ELSE CreateSession([task EXCEPT !.client = r.id, !.calls = @ + 1], r.id)

\* the task runs for the first time, or resumes from the await of get_client
RunSession(t) ==
    /\ \/ sessionTasks[t].pc = "created"
       \/ /\ sessionTasks[t].pc = "await_client"
          /\ GetClientResult(sessionTasks[t].owner).tag # "none"
    /\ sessionTasks' = [sessionTasks EXCEPT
            ![t] = InitClientSession(@, GetClientResult(sessionTasks[t].owner))]
    /\ UNCHANGED <<classDict, clientTasks, personas, last>>

\* the task resumes from the await of the connection inside create_session
ResumeSession(t) ==
    /\ sessionTasks[t].pc = "await_conn"
    /\ ConnectionResult(sessionTasks[t].client).tag # "none"
    /\ sessionTasks' = [sessionTasks EXCEPT ![t] = CreateSession(@, sessionTasks[t].client)]
    /\ UNCHANGED <<classDict, clientTasks, personas, last>>

\* The session ID the remote agent issues for the next session on connection k:
\* it numbers the sessions of a connection and never reuses an ID on it
NextSessionId(k) == clientTasks[k].sessions + 1

\* conn.new_session returned a NewSessionResponse: logged, returned
NewSessionOk(t) ==
    /\ sessionTasks[t].pc = "new_session"
    /\ LET k == sessionTasks[t].client
       IN  /\ sessionTasks' = [sessionTasks EXCEPT ![t].pc = "done",
                                                   ![t].id = NextSessionId(k)]
           /\ clientTasks' = [clientTasks EXCEPT ![k].sessions = NextSessionId(k)]
    /\ UNCHANGED <<classDict, personas, last>>

\* conn.new_session raised
NewSessionFail(t) ==
    /\ sessionTasks[t].pc = "new_session"
    /\ sessionTasks' = [sessionTasks EXCEPT ![t].pc = "failed", ![t].err = ErrNewSession]
    /\ UNCHANGED <<classDict, clientTasks, personas, last>>

----------------------------------------------------------------------------
(* Accessors the host calls on instance i.  A call suspended on a pending  *)
(* task resumes with that task's result, so a call is one step, taken when *)
(* it returns; last is the call and the value (or exception) it produced.  *)

Returned(op, val) == [op |-> op, val |-> val]
Called(op, i, val) == [op |-> op, inst |-> i, val |-> val]

\* self._client_session_future of instance i
SessionFuture(i) == personas[i].sess

GetClient(i) ==
    /\ GetClientResult(i).tag # "none"
    /\ last' = Called("get_client", i, GetClientResult(i))
    /\ UNCHANGED <<classDict, clientTasks, sessionTasks, personas>>

\* Variant: get_session starts a new session task instead of awaiting the stored one
GetSession_Recreate(i) ==
    /\ SessionResult(SessionFuture(i)).tag # "none"
    /\ sessionTasks' = Append(sessionTasks, NewSessionTask(i))
    /\ personas' = [personas EXCEPT ![i].sess = Len(sessionTasks) + 1]
    /\ last' = Called("get_session", i, SessionResult(SessionFuture(i)))
    /\ UNCHANGED <<classDict, clientTasks>>

GetSession(i) ==
    /\ SessionResult(SessionFuture(i)).tag # "none"
    /\ last' = Called("get_session", i, SessionResult(SessionFuture(i)))
    /\ UNCHANGED <<classDict, clientTasks, sessionTasks, personas>>

GetSessionId(i) ==
    /\ SessionResult(SessionFuture(i)).tag # "none"
    /\ last' = Called("get_session_id", i, SessionResult(SessionFuture(i)))
    /\ UNCHANGED <<classDict, clientTasks, sessionTasks, personas>>

\* process_message: get_client, then get_session_id, then prompt_and_reply
ProcessMessageResult(i) ==
    LET c == GetClientResult(i)
        s == SessionResult(SessionFuture(i))
    IN  IF c.tag # "ok" THEN c ELSE s

\* self.as_user().mention_name of an instance of class c
MentionName(c) == IF c = SubClass THEN "bot2" ELSE "bot"

\* str.replace(old, ""): every non-overlapping occurrence of old, found from
\* the left, is dropped
RECURSIVE Remove(_, _)
Remove(s, old) ==
    IF Len(s) < Len(old) THEN s
    ELSE IF StartsWith(s, old) THEN Remove(SubSeq(s, Len(old) + 1, Len(s)), old)
    ELSE SubSeq(s, 1, 1) \o Remove(SubSeq(s, 2, Len(s)), old)

\* message.body.replace("@" + self.as_user().mention_name, "").strip()
Prompt(i, body) == Strip(Remove(body, "@" \o MentionName(personas[i].cls)))

\* The message bodies the host passes to process_message
Bodies == {"@bot do X", "@bot2 do X", " do X ", "ask @bot2 and @bot"}

\* process_message(message) returned or raised: val is the session ID the
\* prompt went to, or the exception; prompt is the text handed to
\* client.prompt_and_reply, which is not reached when an await before it raised
Prompted(i, val, body) ==
    [op |-> "process_message", inst |-> i, val |-> val, body |-> body,
     prompt |-> IF val.tag = "ok" THEN Prompt(i, body) ELSE ""]

ProcessMessage(i, body) ==
    /\ ProcessMessageResult(i).tag # "none"
    /\ last' = Prompted(i, ProcessMessageResult(i), body)
    /\ UNCHANGED <<classDict, clientTasks, sessionTasks, personas>>

----------------------------------------------------------------------------
(* The acp_slash_commands property of instance i *)

\* Names of the commands an agent advertises
CommandNames == {"help", "clear"}

\* The lists of at most n commands
RECURSIVE ListsUpTo(_)
ListsUpTo(n) ==
    IF n = 0 THEN {<<>>}
    ELSE ListsUpTo(n - 1) \cup
         {Append(l, c) : l \in {m \in ListsUpTo(n - 1) : Len(m) = n - 1}, c \in CommandNames}

\* The lists the ACP client passes to the setter
CommandLists == ListsUpTo(MaxCommands)

\* Variant: the list is kept on the class, one list for all its instances
SetCommands_PerClass(i, commands) ==
    /\ personas' = [j \in PersonaIds |->
            IF personas[j].cls = personas[i].cls
            THEN [personas[j] EXCEPT !.commands = commands] ELSE personas[j]]
    /\ last' = Called("set_acp_slash_commands", i, commands)
    /\ UNCHANGED <<classDict, clientTasks, sessionTasks>>

\* the setter: logs, then self._acp_slash_commands = commands
SetCommands(i, commands) ==
    /\ personas' = [personas EXCEPT ![i].commands = commands]
    /\ last' = Called("set_acp_slash_commands", i, commands)
    /\ UNCHANGED <<classDict, clientTasks, sessionTasks>>

\* the getter: return self._acp_slash_commands
GetCommands(i) ==
    /\ last' = Called("acp_slash_commands", i, personas[i].commands)
    /\ UNCHANGED <<classDict, clientTasks, sessionTasks, personas>>

----------------------------------------------------------------------------
(* shutdown() and the _shutdown task of instance i *)

\* Variant: shutdown() runs the close sequence itself, up to the call of
\* conn.close(), and so waits for the client and the connection and raises
\* what they raise
Shutdown_Sync(i) ==
    /\ personas[i].sd = "none"
    /\ GetClientResult(i).tag # "none"
    /\ GetClientResult(i).tag = "ok" => ConnectionResult(GetClientResult(i).id).tag # "none"
    /\ personas' = [personas EXCEPT
            ![i].sd = IF GetClientResult(i).tag = "ok"
                         /\ ConnectionResult(GetClientResult(i).id).tag = "ok"
                      THEN "ctx_exit" ELSE "failed"]
    /\ UNCHANGED <<classDict, clientTasks, sessionTasks, last>>

\* shutdown(): event_loop.create_task(self._shutdown())
Shutdown(i) ==
    /\ personas[i].sd = "none"
    /\ personas' = [personas EXCEPT ![i].sd = "created"]
    /\ UNCHANGED <<classDict, clientTasks, sessionTasks, last>>

\* Where _shutdown stands after: client = await self.get_client();
\* conn = await client.get_connection(); and the call of conn.close()
ShutdownStage(i) ==
    LET c == GetClientResult(i)
    IN  IF c.tag = "none" THEN Returned("await_client", c)
        ELSE IF c.tag = "err" THEN Returned("failed", c)
        ELSE LET r == ConnectionResult(c.id)
             IN  IF r.tag = "none" THEN Returned("await_conn", r)
                 ELSE IF r.tag = "err" THEN Returned("failed", r)
                 ELSE Returned("conn_close", r)

\* the task runs for the first time, or resumes from one of its first two awaits
RunShutdown(i) ==
    /\ \/ personas[i].sd = "created"
       \/ /\ personas[i].sd \in {"await_client", "await_conn"}
          /\ ShutdownStage(i).op # personas[i].sd
    /\ personas' = [personas EXCEPT ![i].sd = ShutdownStage(i).op,
                                    ![i].sdErr = ShutdownStage(i).val.err]
    /\ IF ShutdownStage(i).op = "conn_close"
       THEN clientTasks' = [clientTasks EXCEPT ![ShutdownStage(i).val.id].closes = @ + 1]
       ELSE UNCHANGED clientTasks
    /\ UNCHANGED <<classDict, sessionTasks, last>>

\* conn.close() returned; then, if client._connection_context: client.close(),
\* which awaits the connection future and calls __aexit__ inside its try
ConnCloseOk(i) ==
    /\ personas[i].sd = "conn_close"
    /\ LET k == GetClientResult(i).id
       IN  IF clientTasks[k].ctxSet
           THEN IF ConnectionResult(k).tag = "err"
                THEN /\ personas' = [personas EXCEPT ![i].sd = "done"]
                     /\ UNCHANGED clientTasks
                ELSE /\ personas' = [personas EXCEPT ![i].sd = "ctx_exit"]
                     /\ clientTasks' = [clientTasks EXCEPT ![k].exits = @ + 1]
           ELSE /\ personas' = [personas EXCEPT ![i].sd = "done"]
                /\ UNCHANGED clientTasks
    /\ UNCHANGED <<classDict, sessionTasks, last>>

\* conn.close() raised: line 144 is outside any try, the exception leaves _shutdown
ConnCloseFail(i) ==
    /\ personas[i].sd = "conn_close"
    /\ personas' = [personas EXCEPT ![i].sd = "failed", ![i].sdErr = ErrConnClose]
    /\ UNCHANGED <<classDict, clientTasks, sessionTasks, last>>

\* __aexit__ returned: close() logs and returns, _shutdown logs and returns
CtxExitOk(i) ==
    /\ personas[i].sd = "ctx_exit"
    /\ personas' = [personas EXCEPT ![i].sd = "done"]
    /\ clientTasks' = [clientTasks EXCEPT ![GetClientResult(i).id].transport = "closed"]
    /\ UNCHANGED <<classDict, sessionTasks, last>>

\* __aexit__ raised: close() catches and logs it, _shutdown logs and returns
CtxExitFail(i) ==
    /\ personas[i].sd = "ctx_exit"
    /\ personas' = [personas EXCEPT ![i].sd = "done"]
    /\ UNCHANGED <<classDict, clientTasks, sessionTasks, last>>

----------------------------------------------------------------------------
(* RemoteAcpClient.close(), called on client k by the host directly *)

\* Where close() stands after: if self._connection_context: and, inside the
\* try, conn = await self._connection_future and the call of __aexit__
CloseStage(k) ==
    IF ~clientTasks[k].ctxSet THEN "done"
    ELSE IF ConnectionResult(k).tag = "none" THEN "await_conn"
    ELSE IF ConnectionResult(k).tag = "err" THEN "done"
    ELSE "ctx_exit"

\* close() is called on the client the client future resolved to
Close(k) ==
    /\ clientTasks[k].st = "done"
    /\ clientTasks[k].closePc = "none"
    /\ clientTasks' = [clientTasks EXCEPT
            ![k].closePc = CloseStage(k),
            ![k].exits = IF CloseStage(k) = "ctx_exit" THEN @ + 1 ELSE @]
    /\ UNCHANGED <<classDict, sessionTasks, personas, last>>

\* close() resumes from its await of the connection future
ResumeClose(k) ==
    /\ clientTasks[k].closePc = "await_conn"
    /\ ConnectionResult(k).tag # "none"
    /\ clientTasks' = [clientTasks EXCEPT
            ![k].closePc = CloseStage(k),
            ![k].exits = IF CloseStage(k) = "ctx_exit" THEN @ + 1 ELSE @]
    /\ UNCHANGED <<classDict, sessionTasks, personas, last>>

\* __aexit__ returned: close() logs and returns
CloseExitOk(k) ==
    /\ clientTasks[k].closePc = "ctx_exit"
    /\ clientTasks' = [clientTasks EXCEPT ![k].closePc = "done",
                                          ![k].transport = "closed"]
    /\ UNCHANGED <<classDict, sessionTasks, personas, last>>

\* __aexit__ raised: close() catches and logs it
CloseExitFail(k) ==
    /\ clientTasks[k].closePc = "ctx_exit"
    /\ clientTasks' = [clientTasks EXCEPT ![k].closePc = "done"]
    /\ UNCHANGED <<classDict, sessionTasks, personas, last>>

----------------------------------------------------------------------------

(* Specifications *)

\* the event loop runs a step of a client, connection or session task
TaskStep ==
    \/ \E k \in ClientIds : InitClient(k)
    \/ \E k \in ClientIds : InitConnection(k)
    \/ \E k \in ClientIds : ConnectOk(k)
    \/ \E k \in ClientIds : ConnectFail(k)
    \/ \E k \in ClientIds : InitializeOk(k)
    \/ \E k \in ClientIds : InitializeFail(k)
    \/ \E t \in SessionIds : RunSession(t)
    \/ \E t \in SessionIds : ResumeSession(t)
    \/ \E t \in SessionIds : NewSessionOk(t)
    \/ \E t \in SessionIds : NewSessionFail(t)

\* The message body the specifications with accessors call process_message with
AccessBodies == {"@bot do X"}

\* the host calls an accessor or process_message on an instance
AccessStep ==
    \/ \E i \in PersonaIds : GetClient(i)
    \/ \E i \in PersonaIds : GetSession(i)
    \/ \E i \in PersonaIds : GetSessionId(i)
    \/ \E i \in PersonaIds, body \in AccessBodies : ProcessMessage(i, body)

\* the host shuts an instance down, or the event loop runs a step of _shutdown
TeardownStep ==
    \/ \E i \in PersonaIds : Shutdown(i)
    \/ \E i \in PersonaIds : RunShutdown(i)
    \/ \E i \in PersonaIds : ConnCloseOk(i)
    \/ \E i \in PersonaIds : ConnCloseFail(i)
    \/ \E i \in PersonaIds : CtxExitOk(i)
    \/ \E i \in PersonaIds : CtxExitFail(i)

\* Values of ACP_SERVER_URL the specifications with accessors construct with:
\* unset, a wrong scheme, whitespace only
AccessEnv == {Unset, HttpUrl, BlankUrl}

\* Values of ACP_SERVER_URL the teardown specifications construct with
TeardownEnv == {Unset, SecureUrl, HttpUrl}

\* Setup: construction with every endpoint, and the tasks it starts
NextSetup ==
    \/ \E c \in ConcreteClasses, env \in EnvValues : ConstructExample(c, env)
    \/ TaskStep

SpecSetup == Init /\ [][NextSetup]_vars

\* Setup and use: construction, the tasks it starts, the accessors
Next ==
    \/ \E c \in ConcreteClasses, env \in AccessEnv : ConstructExample(c, env)
    \/ TaskStep
    \/ AccessStep

Spec == Init /\ [][Next]_vars

\* Setup and teardown: construction, the tasks it starts, shutdown
NextTeardown ==
    \/ \E c \in ConcreteClasses, env \in TeardownEnv : ConstructExample(c, env)
    \/ TaskStep
    \/ TeardownStep

SpecTeardown == Init /\ [][NextTeardown]_vars

\* the host closes a client directly, or the event loop runs a step of close()
CloseStep ==
    \/ \E k \in ClientIds : Close(k)
    \/ \E k \in ClientIds : ResumeClose(k)
    \/ \E k \in ClientIds : CloseExitOk(k)
    \/ \E k \in ClientIds : CloseExitFail(k)

\* Setup and direct close: construction, the tasks it starts, close()
NextClose ==
    \/ \E c \in ConcreteClasses, env \in TeardownEnv : ConstructExample(c, env)
    \/ TaskStep
    \/ CloseStep

SpecClose == Init /\ [][NextClose]_vars

\* the ACP client writes, or the host reads, the slash commands of an instance
CommandStep ==
    \/ \E i \in PersonaIds, commands \in CommandLists : SetCommands(i, commands)
    \/ \E i \in PersonaIds : GetCommands(i)

\* Construction and slash commands: the property is synchronous and reads no
\* task, so it is exercised on instances whose tasks have not run yet
NextCommands ==
    \/ \E c \in ConcreteClasses : ConstructExample(c, Unset)
    \/ CommandStep

SpecCommands == Init /\ [][NextCommands]_vars

\* Setup and messages: construction with the default endpoint, the tasks it
\* starts, process_message with every body
NextPrompt ==
    \/ \E c \in ConcreteClasses : ConstructExample(c, Unset)
    \/ TaskStep
    \/ \E i \in PersonaIds, body \in Bodies : ProcessMessage(i, body)

SpecPrompt == Init /\ [][NextPrompt]_vars

\* Every operation of the facade
NextAll ==
    \/ \E c \in ConcreteClasses, env \in TeardownEnv : ConstructExample(c, env)
    \/ TaskStep
    \/ AccessStep
    \/ TeardownStep

SpecAll == Init /\ [][NextAll]_vars

----------------------------------------------------------------------------
(* Properties *)

ClassTasks(c) == {k \in ClientIds : clientTasks[k].cls = c}
Instances(c) == {i \in PersonaIds : personas[i].cls = c}

\* A malformed endpoint: empty, whitespace only, or a scheme other than ws / wss
AllSpace(url) == \A n \in 1..Len(url) : IsSpace(SubSeq(url, n, n))
HasScheme(url, scheme) == Len(url) >= Len(scheme) /\ SubSeq(url, 1, Len(scheme)) = scheme
Malformed(url) ==
    \/ Len(url) = 0
    \/ AllSpace(url)
    \/ ~(HasScheme(url, "ws://") \/ HasScheme(url, "wss://"))

\* C1: a subclass constructed with a valid endpoint has, however many instances
\* were constructed, exactly one _init_client task, at most one client, and one
\* handshake: one connect and one conn.initialize call, both made once the
\* connection is established.
C1_OneHandshakePerSubclass ==
    \A c \in ConcreteClasses :
        (Instances(c) # {} /\ \A k \in ClassTasks(c) : ~Malformed(clientTasks[k].url))
        => /\ Cardinality(ClassTasks(c)) = 1
           /\ \A k \in ClassTasks(c) :
                /\ clientTasks[k].connects <= 1
                /\ clientTasks[k].inits <= 1
                /\ clientTasks[k].conn \in {"initializing", "done"}
                       => clientTasks[k].connects = 1
                /\ clientTasks[k].conn = "done" => clientTasks[k].inits = 1

\* C1 witness: two instances of one subclass, its one connection established
C1_Witness ==
    \E c \in ConcreteClasses :
        /\ Cardinality(Instances(c)) >= 2
        /\ \E k \in ClassTasks(c) :
            /\ clientTasks[k].conn = "done"
            /\ clientTasks[k].connects = 1
            /\ clientTasks[k].inits = 1

\* C2: whatever get_client() returned last, on whichever instance, is the result
\* of the single client task of that instance's subclass, and it is what
\* get_client() yields on every instance of that subclass.
C2_SharedClient ==
    last.op = "get_client"
    => LET c == personas[last.inst].cls
       IN  /\ last.val.tag # "none"
           /\ \E k \in ClassTasks(c) :
                /\ ClassTasks(c) = {k}
                /\ last.val = ClientResult(k)
           /\ \A j \in Instances(c) : GetClientResult(j) = last.val

\* C2 witness: get_client() on the second of two instances of a subclass
\* returned the client
C2_Witness ==
    /\ last.op = "get_client"
    /\ last.val.tag = "ok"
    /\ last.inst = Len(personas)
    /\ Cardinality(Instances(personas[last.inst].cls)) >= 2

\* C3: every subclass with an instance owns a client future created by one of its
\* own instances; instances of different subclasses never hold the same future
\* or client, and a session is only ever requested on the own subclass's client.
C3_NoCrossSubclassSharing ==
    /\ \A c \in ConcreteClasses :
        Instances(c) # {}
        => /\ classDict[c].kind = "task"
           /\ clientTasks[classDict[c].task].cls = c
    /\ \A i, j \in PersonaIds :
        personas[i].cls # personas[j].cls
        => /\ ClassAttr(personas[i].cls) # ClassAttr(personas[j].cls)
           /\ (GetClientResult(i).tag = "ok" /\ GetClientResult(j).tag = "ok")
                => GetClientResult(i).id # GetClientResult(j).id
    /\ \A t \in SessionIds :
        sessionTasks[t].calls > 0
        => clientTasks[sessionTasks[t].client].cls = personas[sessionTasks[t].owner].cls

\* C3 witness: the parent class constructed first, then its subclass, against
\* the same endpoint; each has its own client and a session on it
C3_Witness ==
    /\ Len(personas) = 2
    /\ personas[1].cls = ExampleClass
    /\ personas[2].cls = SubClass
    /\ personas[1].url = personas[2].url
    /\ GetClientResult(1).tag = "ok"
    /\ GetClientResult(2).tag = "ok"
    /\ GetClientResult(1).id # GetClientResult(2).id
    /\ \A t \in SessionIds : sessionTasks[t].pc = "done"

\* C4: a client task whose endpoint is malformed never yields a client: it fails
\* with one of the two ValueErrors in the step that runs it, no connection task
\* exists for it, no context manager was built and no transport was opened.
C4_MalformedEndpointRejected ==
    \A k \in ClientIds :
        Malformed(clientTasks[k].url)
        => /\ clientTasks[k].st \in {"created", "failed"}
           /\ clientTasks[k].st = "failed" => clientTasks[k].err \in {ErrEmpty, ErrScheme}
           /\ clientTasks[k].conn = "none"
           /\ clientTasks[k].connects = 0
           /\ clientTasks[k].inits = 0
           /\ ~clientTasks[k].ctxSet
           /\ clientTasks[k].transport = "unopened"

\* C4 witness: a whitespace-only endpoint and an http:// endpoint, both rejected
C4_Witness ==
    \E k1, k2 \in ClientIds :
        /\ clientTasks[k1].url = BlankUrl
        /\ clientTasks[k1].st = "failed"
        /\ clientTasks[k1].err = ErrEmpty
        /\ clientTasks[k2].url = HttpUrl
        /\ clientTasks[k2].st = "failed"
        /\ clientTasks[k2].err = ErrScheme

\* The client task of instance i's subclass
ClassTask(i) == ClassAttr(personas[i].cls).task

\* The setup failure of instance i's subclass, if any: the ValueError of the
\* client construction, or the exception of the connection task
SetupFailure(i) ==
    IF GetClientResult(i).tag = "err" THEN GetClientResult(i)
    ELSE IF GetClientResult(i).tag = "ok" /\ ConnectionResult(GetClientResult(i).id).tag = "err"
         THEN ConnectionResult(GetClientResult(i).id)
    ELSE NoResult

\* C5 as stated: once the setup of an instance's subclass has failed, a
\* get_client() or process_message() call that returns on it raises that failure.
C5_EveryAwaiterObservesFailure ==
    [][\A i \in PersonaIds :
          ( /\ SetupFailure(i).tag = "err"
            /\ last' # last
            /\ last'.inst = i
            /\ last'.op \in {"get_client", "process_message"} )
          => last'.val = SetupFailure(i)]_vars

\* C5 amended: after a malformed endpoint every accessor call raises that
\* ValueError; after a failed handshake get_client() still returns the client,
\* while get_session, get_session_id and process_message raise the connection
\* task's exception; a finished session task of the subclass has failed with
\* the same exception.
C5_FailureObserved ==
    /\ last.op # "none"
       => LET k == ClassTask(last.inst)
          IN  /\ Malformed(clientTasks[k].url)
                 => /\ last.val.tag = "err"
                    /\ last.val.err \in {ErrEmpty, ErrScheme}
                    /\ last.val = ClientResult(k)
              /\ clientTasks[k].conn = "failed"
                 => last.val = IF last.op = "get_client" THEN Ok(k)
                               ELSE Raised(clientTasks[k].connErr)
    /\ \A t \in SessionIds :
        ( /\ SetupFailure(sessionTasks[t].owner).tag = "err"
          /\ sessionTasks[t].pc \in {"done", "failed"} )
        => SessionResult(t) = SetupFailure(sessionTasks[t].owner)

\* C5 witness: the handshake of a subclass with two instances failed in
\* conn.initialize, and process_message on the second instance raised it
C5_Witness ==
    /\ Len(personas) = 2
    /\ personas[1].cls = personas[2].cls
    /\ SetupFailure(2) = Raised(ErrInitialize)
    /\ last.op = "process_message"
    /\ last.inst = 2
    /\ last.val = Raised(ErrInitialize)
    /\ \A t \in SessionIds : SessionResult(t) = Raised(ErrInitialize)

\* The setup of subclass c has failed: its client task or its connection task
SetupFailed(c) ==
    \E k \in ClassTasks(c) :
        clientTasks[k].st = "failed" \/ clientTasks[k].conn = "failed"

\* C6: once the setup of a subclass has failed, no step installs another client
\* future for it, starts another client task for it, or makes another connect
\* or conn.initialize call; its failed task keeps its endpoint and its outcome.
C6_SetupFailureIsTerminal ==
    [][\A c \in ConcreteClasses :
          SetupFailed(c)
          => /\ classDict'[c] = classDict[c]
             /\ ClassTasks(c)' = ClassTasks(c)
             /\ \A k \in ClassTasks(c) :
                  /\ clientTasks'[k].url = clientTasks[k].url
                  /\ clientTasks'[k].st = clientTasks[k].st
                  /\ clientTasks'[k].connects = clientTasks[k].connects
                  /\ clientTasks'[k].inits = clientTasks[k].inits
                  /\ clientTasks[k].conn = "failed" => clientTasks'[k].conn = "failed"]_vars

\* C6 witness: a subclass whose setup failed has two instances, a _shutdown
\* that ended on the failure, and a process_message that raised it
C6_Witness ==
    \E c \in ConcreteClasses :
        /\ SetupFailed(c)
        /\ Cardinality(Instances(c)) = 2
        /\ \E i \in Instances(c) : personas[i].sd = "failed"
        /\ last.op = "process_message"
        /\ last.inst \in Instances(c)
        /\ last.val.tag = "err"

\* C7: every instance has the one session task its construction created and
\* never another; that task calls create_session at most once; and whatever
\* get_session() or get_session_id() returned last is that task's result.
C7_OneSessionPerInstance ==
    /\ Len(sessionTasks) = Len(personas)
    /\ \A i \in PersonaIds :
        /\ SessionFuture(i) = i
        /\ sessionTasks[i].owner = i
        /\ sessionTasks[i].calls <= 1
        /\ sessionTasks[i].pc = "done" => sessionTasks[i].calls = 1
    /\ last.op \in {"get_session", "get_session_id"}
       => /\ last.val.tag # "none"
          /\ last.val = SessionResult(SessionFuture(last.inst))

\* C7 witness: get_session_id() returned the ID of an instance's session while
\* another instance of the same subclass holds a session too
C7_Witness ==
    /\ last.op = "get_session_id"
    /\ last.val.tag = "ok"
    /\ sessionTasks[last.inst].calls = 1
    /\ \E j \in PersonaIds :
        /\ j # last.inst
        /\ personas[j].cls = personas[last.inst].cls
        /\ sessionTasks[j].pc = "done"

C9_ClientBeforeSession ==
    \A t \in SessionIds :
        sessionTasks[t].calls > 0
        => /\ GetClientResult(sessionTasks[t].owner) = Ok(sessionTasks[t].client)
           /\ clientTasks[sessionTasks[t].client].st = "done"
           /\ sessionTasks[t].pc \notin {"created", "await_client"}

\* C9 witness: one session task has called create_session while another of the
\* same subclass, suspended on the client future, has not resumed yet
C9_Witness ==
    \E t, u \in SessionIds :
        /\ personas[sessionTasks[t].owner].cls = personas[sessionTasks[u].owner].cls
        /\ sessionTasks[t].calls = 1
        /\ sessionTasks[u].pc = "await_client"
        /\ sessionTasks[u].calls = 0

\* C10: no _shutdown task ends with an exception raised by conn.close() or by
\* the transport context's __aexit__.
C10_TeardownErrorsSuppressed ==
    \A i \in PersonaIds :
        personas[i].sd = "failed" => personas[i].sdErr \notin {ErrConnClose, ErrCtxExit}

\* C11: shutdown() on an instance can be called in every state (client pending,
\* ready or failed, handshake failed, connection closed by another instance,
\* conn.close() having raised) and the call only schedules the _shutdown task:
\* the task has not run when the call returns, no close call has been made,
\* no exception is recorded, and nothing else changes.
C11_ShutdownOnlySchedules ==
    [][\A i \in PersonaIds :
        personas[i].sd = "none"
        => /\ ENABLED Shutdown(i)
           /\ personas'[i].sd # "none"
              => /\ personas' = [personas EXCEPT ![i].sd = "created"]
                 /\ UNCHANGED <<classDict, clientTasks, sessionTasks, last>>]_vars

\* C11 witness: shutdown() has returned on an instance whose subclass's
\* connection another instance's _shutdown failed to close (conn.close() raised)
C11_Witness ==
    \E i, j \in PersonaIds :
        /\ i # j
        /\ personas[i].cls = personas[j].cls
        /\ personas[j].sd = "failed"
        /\ personas[j].sdErr = ErrConnClose
        /\ personas[i].sd = "created"

\* C12: when a direct close() on a client has completed, it has waited for the
\* connection task (which has finished, one way or the other) and the transport
\* is not open.
C12_CloseWaitsForHandshake ==
    \A k \in ClientIds :
        clientTasks[k].closePc = "done"
        => /\ clientTasks[k].conn \in {"done", "failed"}
           /\ clientTasks[k].transport # "open"

\* C13: a new instance's slash-command list is empty; the list of an instance
\* changes only by a write on that instance, and then to exactly the list
\* written; a write leaves the list of every other instance as it was; a read
\* returns the instance's current list, so the list written last, and changes
\* no list.
C13_CommandsReplacedWholesale ==
    [][\A i \in 1..Len(personas') :
        IF i > Len(personas)
        THEN personas'[i].commands = <<>>
        ELSE /\ personas'[i].commands # personas[i].commands
                => /\ last'.op = "set_acp_slash_commands"
                   /\ last'.inst = i
                   /\ last'.val = personas'[i].commands
             /\ (last' # last /\ last'.inst = i /\ last'.op = "set_acp_slash_commands")
                => personas'[i].commands = last'.val
             /\ (last' # last /\ last'.inst = i /\ last'.op = "acp_slash_commands")
                => /\ last'.val = personas[i].commands
                   /\ personas' = personas]_vars

\* C13 witness: a read on an instance returned the two-command list written to
\* it, while the other instance of the same subclass holds a different list
C13_Witness ==
    \E i, j \in PersonaIds :
        /\ i # j
        /\ personas[i].cls = personas[j].cls
        /\ last = Called("acp_slash_commands", i, personas[i].commands)
        /\ Len(personas[i].commands) = 2
        /\ Len(personas[j].commands) = 1

\* The characters a mention name is made of
NameChars ==
    {"a", "b", "c", "d", "e", "f", "g", "h", "i", "j", "k", "l", "m",
     "n", "o", "p", "q", "r", "s", "t", "u", "v", "w", "x", "y", "z",
     "0", "1", "2", "3", "4", "5", "6", "7", "8", "9", "-", "_"}

\* s without the mention tokens of name: an occurrence of "@name" that is
\* followed by a further name character is part of a longer mention and stays
RECURSIVE WithoutMention(_, _)
WithoutMention(s, name) ==
    LET tok == "@" \o name
    IN  IF Len(s) < Len(tok) THEN s
        ELSE IF /\ StartsWith(s, tok)
                /\ \/ Len(s) = Len(tok)
                   \/ SubSeq(s, Len(tok) + 1, Len(tok) + 1) \notin NameChars
             THEN WithoutMention(SubSeq(s, Len(tok) + 1, Len(s)), name)
             ELSE SubSeq(s, 1, 1) \o WithoutMention(SubSeq(s, 2, Len(s)), name)

\* C14: a process_message call that forwarded a prompt forwarded the body
\* without the instance's own mention tokens, and nothing else removed, with
\* surrounding whitespace trimmed, to the instance's own session ID.
C14_OwnMentionStripped ==
    (last.op = "process_message" /\ last.val.tag = "ok")
    => /\ last.prompt = Strip(WithoutMention(last.body, MentionName(personas[last.inst].cls)))
       /\ last.val = SessionResult(SessionFuture(last.inst))

\* C15: a construction of an example persona that starts its subclass's client
\* starts it with ws://localhost:8080/ws when ACP_SERVER_URL is unset, and with
\* exactly the value of ACP_SERVER_URL when it is set.
C15_EndpointFromEnvironment ==
    [][\A c \in ConcreteClasses, env \in EnvValues :
        (ConstructExample(c, env) /\ NeedsClient(c))
        => /\ Len(clientTasks') = Len(clientTasks) + 1
           /\ clientTasks'[Len(clientTasks')].cls = c
           /\ clientTasks'[Len(clientTasks')].url =
                  IF env = Unset THEN "ws://localhost:8080/ws" ELSE env]_vars

\* C15 witness: one subclass's client was constructed with the default
\* endpoint, another's with the configured wss:// endpoint
C15_Witness ==
    \E k, m \in ClientIds :
        /\ clientTasks[k].st = "done"
        /\ clientTasks[k].url = "ws://localhost:8080/ws"
        /\ clientTasks[m].st = "done"
        /\ clientTasks[m].url = SecureUrl

\* C16: a step that closes the connection of a subclass's client (conn.close()
\* is called, or the transport context is exited) is taken only when no
\* instance of that subclass is live, i.e. constructed and not shut down.
C16_LiveInstancesKeepConnection ==
    [][\A k \in ClientIds :
        ( \/ clientTasks'[k].closes > clientTasks[k].closes
          \/ clientTasks'[k].exits > clientTasks[k].exits
          \/ clientTasks'[k].transport = "closed" /\ clientTasks[k].transport # "closed" )
        => \A i \in Instances(clientTasks[k].cls) : personas[i].sd # "none"]_vars

\* C17: on every client, conn.close() is called at most once and the transport
\* context's __aexit__ is called at most once.
C17_ClosedAtMostOnce ==
    \A k \in ClientIds :
        /\ clientTasks[k].closes <= 1
        /\ clientTasks[k].exits <= 1

\* C18: once the _shutdown task of an instance has ended, the transport of its
\* subclass's client is not open: it was never opened, or it has been closed.
C18_NoTransportLeftOpen ==
    \A i \in PersonaIds :
        ( /\ personas[i].sd \in {"done", "failed"}
          /\ GetClientResult(i).tag = "ok" )
        => clientTasks[GetClientResult(i).id].transport # "open"

\* C19: once a subclass owns a client future, no step replaces or clears it or
\* starts another client task for the subclass; and once conn.close() has been
\* called on its client, no step makes a further connect or conn.initialize
\* call on it.
C19_ClientFutureNeverReplaced ==
    [][\A c \in ConcreteClasses :
        classDict[c].kind = "task"
        => /\ classDict'[c] = classDict[c]
           /\ {k \in 1..Len(clientTasks') : clientTasks'[k].cls = c} = ClassTasks(c)
           /\ \A k \in ClassTasks(c) :
                clientTasks[k].closes > 0
                => /\ clientTasks'[k].connects = clientTasks[k].connects
                   /\ clientTasks'[k].inits = clientTasks[k].inits]_vars

\* C19 witness: the first instance's _shutdown has closed the connection and
\* exited the transport; a second instance of the subclass exists, not shut
\* down, its session task not yet run, and the subclass still has one client
C19_Witness ==
    \E i, j \in PersonaIds :
        /\ i < j
        /\ personas[i].cls = personas[j].cls
        /\ personas[i].sd = "done"
        /\ personas[j].sd = "none"
        /\ sessionTasks[SessionFuture(j)].pc = "created"
        /\ Cardinality(ClassTasks(personas[i].cls)) = 1
        /\ \A k \in ClassTasks(personas[i].cls) :
              /\ clientTasks[k].closes = 1
              /\ clientTasks[k].transport = "closed"
              /\ classDict[personas[i].cls] = TaskRef(k)

\* The first instance of class c to be constructed
FirstInstance(c) == CHOOSE i \in Instances(c) : \A j \in Instances(c) : i <= j

\* C20: the client of a subclass has the remote_url of the subclass's first
\* instance as its endpoint, whatever remote_url later instances were
\* constructed with: the subclass has no client for a later instance's URL,
\* and every instance's create_session call went to that one client.
C20_EndpointOfFirstInstance ==
    \A c \in ConcreteClasses :
        Instances(c) # {}
        => /\ ClassTasks(c) # {}
           /\ \A k \in ClassTasks(c) : clientTasks[k].url = personas[FirstInstance(c)].url
           /\ \A i \in Instances(c) :
                sessionTasks[SessionFuture(i)].calls > 0
                => /\ sessionTasks[SessionFuture(i)].client \in ClassTasks(c)
                   /\ clientTasks[sessionTasks[SessionFuture(i)].client].url
                          = personas[FirstInstance(c)].url

\* C20 witness: a second instance of a subclass, constructed with another
\* remote_url than the first, has its session on the first instance's endpoint
C20_Witness ==
    \E i, j \in PersonaIds :
        /\ i < j
        /\ personas[i].cls = personas[j].cls
        /\ personas[i].url # personas[j].url
        /\ sessionTasks[SessionFuture(j)].pc = "done"
        /\ clientTasks[sessionTasks[SessionFuture(j)].client].url = personas[i].url

====
